---------------------------- MODULE Spec2Model ----------------------------
(***************************************************************************)
(* A model of the health-data ingestion scripts: the Apple Health XML      *)
(* pipeline (convert_apple_health.py), its three batch loaders, the        *)
(* PostgreSQL tables they write to (create_health_database.py) and the     *)
(* command-line orchestrator (ingest_data.py).                             *)
(*                                                                         *)
(* An optional value is a sequence of length at most one: <<>> is Python's *)
(* None / SQL's NULL, <<x>> is a present value.                            *)
(***************************************************************************)
EXTENDS Integers, Sequences, FiniteSets, TLC

\* ------------------------------------------------------------------ bounds
\* Longest export.xml (number of top-level elements) explored.
MaxLen == 2
\* Number of script invocations explored in one behaviour.
MaxRuns == 2
\* Largest configured BATCH_SIZE explored (1 .. MaxBatch).
MaxBatch == 2

\* ---------------------------------------------------------------- options
NoneV == <<>>
Some(x) == <<x>>
IsNone(o) == o = <<>>
Val(o) == o[1]

\* dict.get(key, default) / elem.get(attr, default): the default only
\* replaces a MISSING key; `present` says whether the key is there.
GetOr(present, v, default) == IF present THEN v ELSE Some(default)

\* ------------------------------------------------------- parsing helpers
\* Timestamp strings of the export and the instants pandas parses them to,
\* counted in days from 2024-01-01 00:00 of the same zone.
TimeOf(s) ==
  CASE s = "2024-01-15 10:30:00 -0500" -> 15
    [] s = "2024-02-01 10:30:00 -0500" -> 32
    [] OTHER -> 0
ParsableTimes == {"2024-01-15 10:30:00 -0500", "2024-02-01 10:30:00 -0500"}

\* validate_and_parse_timestamp: None for a missing, empty or unparsable
\* string, else the parsed instant.
validate_and_parse_timestamp(ts) ==
  IF IsNone(ts) \/ Val(ts) = "" THEN NoneV
  ELSE IF Val(ts) \in ParsableTimes THEN Some(TimeOf(Val(ts))) ELSE NoneV

\* Numeric strings of the export and the numbers float() gives for them.
NumOf(s) ==
  CASE s = "0" -> 0
    [] s = "5" -> 5
    [] s = "30" -> 30
    [] s = "1000000" -> 1000000
    [] OTHER -> 0
NumericStrings == {"0", "5", "30", "1000000"}

\* parse_numeric_value: None for a missing, blank or non-numeric string.
parse_numeric_value(s) ==
  IF IsNone(s) \/ Val(s) = "" THEN NoneV
  ELSE IF Val(s) \in NumericStrings THEN Some(NumOf(Val(s))) ELSE NoneV

\* str.startswith for the two type-identifier prefixes of the export.
QuantityTypes == {"HKQuantityTypeIdentifierStepCount"}
CategoryTypes == {"HKCategoryTypeIdentifierSleepAnalysis"}
StartsWithQuantity(t) == t \in QuantityTypes
StartsWithCategory(t) == t \in CategoryTypes


\* ------------------------------------------------- the export's elements
T1 == Some("2024-01-15 10:30:00 -0500")
T2 == Some("2024-02-01 10:30:00 -0500")
QT == Some("HKQuantityTypeIdentifierStepCount")
CT == Some("HKCategoryTypeIdentifierSleepAnalysis")

\* A top-level element of export.xml: its tag and its attributes (absent
\* attributes are NoneV).
Elem(tag, type, s, e, v, unit, src, act, dur, dist) ==
  [tag |-> tag, type |-> type, startDate |-> s, endDate |-> e, value |-> v,
   unit |-> unit, sourceName |-> src, workoutActivityType |-> act,
   duration |-> dur, durationUnit |-> NoneV,
   totalDistance |-> dist, totalDistanceUnit |-> NoneV,
   totalEnergyBurned |-> NoneV, totalEnergyBurnedUnit |-> NoneV]

RecordElem(type, s, e, v, unit) ==
  Elem("Record", type, s, e, v, unit, Some("Watch"), NoneV, NoneV, NoneV)
WorkoutElem(act, s, e, dur) ==
  Elem("Workout", NoneV, s, e, NoneV, NoneV, NoneV, act, dur, NoneV)

qA == RecordElem(QT, T1, T2, Some("5"), Some("count"))
\* the natural key of qA with another unit
qUnit == RecordElem(QT, T1, T2, Some("5"), Some("steps"))
\* a value NUMERIC(12, 6) cannot hold
qBig == RecordElem(QT, T1, T1, Some("1000000"), Some("count"))
\* startDate after endDate
qRev == RecordElem(QT, T2, T1, Some("5"), Some("count"))
\* unparsable start date
qBadDate == RecordElem(QT, Some("yesterday"), T2, Some("5"), Some("count"))
cA == RecordElem(CT, T1, T2, Some("HKCategoryValueSleepAnalysisInBed"), NoneV)
\* a category record without a value attribute
cNoValue == RecordElem(CT, T1, T2, NoneV, NoneV)
wA == WorkoutElem(Some("HKWorkoutActivityTypeRunning"), T1, T2, Some("30"))
\* the natural key of wA without a duration
wNoDur == WorkoutElem(Some("HKWorkoutActivityTypeRunning"), T1, T2, NoneV)
\* an element that is neither a Record nor a Workout
other == Elem("ExportDate", NoneV, NoneV, NoneV, Some("5"), NoneV, NoneV, NoneV, NoneV, NoneV)

Elems == {qA, qUnit, qBig, qRev, qBadDate, cA, cNoValue, wA, wNoDur, other}

\* Every sequence over S of length at most n.
SeqsUpTo(S, n) == UNION {[1..k -> S] : k \in 0..n}

\* ----------------------------------------------------- the reader's dicts
\* The dict the reader appends for a quantity Record (elem.get with a
\* default only for sourceName).
QuantityDict(el) ==
  [type |-> el.type, startDate |-> el.startDate, endDate |-> el.endDate,
   value |-> el.value, unit |-> el.unit,
   source |-> GetOr(~IsNone(el.sourceName), el.sourceName, "Apple Health")]
CategoryDict(el) ==
  [type |-> el.type, startDate |-> el.startDate, endDate |-> el.endDate,
   value |-> el.value,
   source |-> GetOr(~IsNone(el.sourceName), el.sourceName, "Apple Health")]
WorkoutDict(el) ==
  [workoutActivityType |-> el.workoutActivityType,
   startDate |-> el.startDate, endDate |-> el.endDate,
   duration |-> el.duration, durationUnit |-> el.durationUnit,
   totalDistance |-> el.totalDistance, totalDistanceUnit |-> el.totalDistanceUnit,
   totalEnergyBurned |-> el.totalEnergyBurned,
   totalEnergyBurnedUnit |-> el.totalEnergyBurnedUnit,
   sourceName |-> GetOr(~IsNone(el.sourceName), el.sourceName, "Apple Health")]

\* A reader that takes every Record without the category prefix for a
\* quantity.
KindOfAnyRecord(el) ==
  LET record_type == IF IsNone(el.type) THEN "" ELSE Val(el.type) IN
  IF el.tag = "Record"
    THEN IF StartsWithCategory(record_type) THEN "category" ELSE "quantity"
  ELSE IF el.tag = "Workout" THEN "workout"
  ELSE "none"

\* The kind the reader routes an element to: "quantity", "category",
\* "workout" or "none" (ignored).  elem.get("type", "") is "" when absent.
KindOf(el) ==
  LET record_type == IF IsNone(el.type) THEN "" ELSE Val(el.type) IN
  IF el.tag = "Record"
    THEN IF StartsWithQuantity(record_type) THEN "quantity"
         ELSE IF StartsWithCategory(record_type) THEN "category"
         ELSE "none"
  ELSE IF el.tag = "Workout" THEN "workout"
  ELSE "none"

DictOf(el) ==
  CASE KindOf(el) = "quantity" -> QuantityDict(el)
    [] KindOf(el) = "category" -> CategoryDict(el)
    [] OTHER -> WorkoutDict(el)

\* Python truthiness of an optional string: None and "" are falsy.
Truthy(o) == ~IsNone(o) /\ Val(o) # ""


\* ------------------------------------------- the loaders' row validation
\* (end_date - start_date).total_seconds() of two parsed instants.
SecondsPerDay == 86400
total_seconds(start, end) == (end - start) * SecondsPerDay

\* A quantity check that does not look at the value.
QuantityValidAnyValue(d) ==
  /\ ~IsNone(validate_and_parse_timestamp(d.startDate))
  /\ ~IsNone(validate_and_parse_timestamp(d.endDate))
  /\ Truthy(d.type)

\* insert_health_records_batch keeps a record when both dates parse, the
\* type is truthy and the value parses.
QuantityValid(d) ==
  /\ ~IsNone(validate_and_parse_timestamp(d.startDate))
  /\ ~IsNone(validate_and_parse_timestamp(d.endDate))
  /\ Truthy(d.type)
  /\ ~IsNone(parse_numeric_value(d.value))
QuantityRow(d) ==
  [type |-> d.type,
   start_date |-> validate_and_parse_timestamp(d.startDate),
   end_date |-> validate_and_parse_timestamp(d.endDate),
   value |-> parse_numeric_value(d.value),
   unit |-> d.unit,
   source_name |-> GetOr(TRUE, d.source, "Apple Health")]

\* insert_category_records_batch: both dates parse and the type is truthy.
\* The dict always has the key "value", so .get("value", "") returns the
\* stored attribute, None included.
CategoryValid(d) ==
  /\ ~IsNone(validate_and_parse_timestamp(d.startDate))
  /\ ~IsNone(validate_and_parse_timestamp(d.endDate))
  /\ Truthy(d.type)
CategoryRow(d) ==
  [type |-> d.type,
   start_date |-> validate_and_parse_timestamp(d.startDate),
   end_date |-> validate_and_parse_timestamp(d.endDate),
   value |-> GetOr(TRUE, d.value, ""),
   source_name |-> GetOr(TRUE, d.source, "Apple Health")]

\* insert_workouts_batch: both dates parse and the activity type is truthy;
\* a duration that is None or 0 is replaced by end - start.
WorkoutValid(d) ==
  /\ ~IsNone(validate_and_parse_timestamp(d.startDate))
  /\ ~IsNone(validate_and_parse_timestamp(d.endDate))
  /\ Truthy(d.workoutActivityType)
WorkoutDuration(d) ==
  LET given == parse_numeric_value(d.duration)
      start == validate_and_parse_timestamp(d.startDate)
      end == validate_and_parse_timestamp(d.endDate) IN
  IF IsNone(given) \/ Val(given) = 0
    THEN Some(total_seconds(Val(start), Val(end)))
    ELSE given
WorkoutRow(d) ==
  [activity_type |-> d.workoutActivityType,
   start_date |-> validate_and_parse_timestamp(d.startDate),
   end_date |-> validate_and_parse_timestamp(d.endDate),
   duration_seconds |-> WorkoutDuration(d),
   total_distance |-> parse_numeric_value(d.totalDistance),
   distance_unit |-> d.totalDistanceUnit,
   total_energy_burned |-> parse_numeric_value(d.totalEnergyBurned),
   energy_unit |-> d.totalEnergyBurnedUnit,
   source_name |-> GetOr(TRUE, d.sourceName, "Apple Health")]

Kinds == {"quantity", "category", "workout"}
ValidOf(kind, d) ==
  CASE kind = "quantity" -> QuantityValid(d)
    [] kind = "category" -> CategoryValid(d)
    [] OTHER -> WorkoutValid(d)
RowOf(kind, d) ==
  CASE kind = "quantity" -> QuantityRow(d)
    [] kind = "category" -> CategoryRow(d)
    [] OTHER -> WorkoutRow(d)

\* valid_records / valid_workouts: the rows of the batch's valid records,
\* in the batch's order.  A buffered entry is [d |-> dict, pos |-> the
\* element's position in the export]; pos is bookkeeping of the model.
ValidRows(kind, batch) ==
  LET keep == SelectSeq(batch, LAMBDA b : ValidOf(kind, b.d)) IN
  [i \in 1..Len(keep) |-> [row |-> RowOf(kind, keep[i].d), pos |-> keep[i].pos]]

\* ------------------------------------------------------- the store's rules
TableOf(kind) ==
  CASE kind = "quantity" -> "health_records"
    [] kind = "category" -> "health_category_records"
    [] OTHER -> "workouts"
Tables == {"health_records", "health_category_records", "workouts"}

\* The columns of each table's UNIQUE constraint (create_tables).
UniqueColumns(table) ==
  CASE table = "health_records" ->
         {"type", "start_date", "end_date", "value", "source_name"}
    [] table = "health_category_records" ->
         {"type", "start_date", "end_date", "value", "source_name"}
    [] OTHER -> {"activity_type", "start_date", "end_date", "source_name"}

\* The columns each loader names in ON CONFLICT (...).
ConflictTarget(kind) ==
  CASE kind = "quantity" ->
         {"type", "start_date", "end_date", "value", "source_name"}
    [] kind = "category" ->
         {"type", "start_date", "end_date", "value", "source_name"}
    [] OTHER -> {"activity_type", "start_date", "end_date", "source_name"}

\* The NOT NULL columns of each table.
NotNullColumns(table) ==
  CASE table = "workouts" -> {"activity_type", "start_date", "end_date"}
    [] OTHER -> {"type", "start_date", "end_date"}

\* NUMERIC(12, 6) holds absolute values below 10^6, NUMERIC(10, 2) below 10^8.
ValueLimit == 1000000
DurationLimit == 100000000
Abs(n) == IF n < 0 THEN -n ELSE n
NumericOverflow(table, row) ==
  CASE table = "health_records" ->
         ~IsNone(row.value) /\ Abs(Val(row.value)) >= ValueLimit
    [] table = "workouts" ->
         ~IsNone(row.duration_seconds)
           /\ Abs(Val(row.duration_seconds)) >= DurationLimit
    [] OTHER -> FALSE

\* Two rows collide on a unique constraint when they agree on every column
\* of it and none of these is NULL (NULLs are distinct in a unique index).
UniqueCollision(cols, r1, r2) ==
  \A c \in cols : ~IsNone(r1[c]) /\ r1[c] = r2[c]

\* One INSERT ... ON CONFLICT (target) DO NOTHING against the rows the
\* connection sees: "error" (the statement raises), "skip" or "insert".
InsertOutcome(table, target, visible, row) ==
  IF target # UniqueColumns(table) THEN "error"
  ELSE IF \E c \in NotNullColumns(table) : IsNone(row[c]) THEN "error"
  ELSE IF NumericOverflow(table, row) THEN "error"
  ELSE IF \E i \in 1..Len(visible) : UniqueCollision(target, visible[i], row)
    THEN "skip"
  ELSE "insert"

\* Faulty variants: a rollback, and a close, that keep the pending rows.
RolledBackKeeps(rows, pending) == rows \o pending
ClosedCommits(rows, pending) == rows \o pending

\* What the table holds after conn.commit(), conn.rollback(), and after
\* conn.close() with the transaction still open.
Committed(rows, pending) == rows \o pending
RolledBack(rows, pending) == rows
ClosedUncommitted(rows, pending) == rows


\* ------------------------------------------------------------------ state
VARIABLES
  export,      \* the top-level elements of export.xml, in document order
  store,       \* store[db][table]: the committed rows, in insertion order
  PGDB,        \* the database this invocation connects to
  BATCH_SIZE,  \* the configured batch size of this invocation
  runs,        \* invocations started so far
  pc,          \* where process_apple_health_export stands
  idx,         \* position of the next element of the for loop
  buf,         \* buf[kind]: health_quantity_data, health_category_data, workout_data
  ldr,         \* the loader call in progress
  txn,         \* rows inserted by the open transaction, not yet committed
  commitLog,   \* [kind, pos] of every row this run committed, in commit order
  atBoundary,  \* store[PGDB] as of the last batch boundary of this run
  lastBatch,   \* the last loader call: its table before, its rows, its outcome
  runLog,      \* per invocation: database, batch size, store before, status
  orch,        \* ingest_data.py: arguments, environment, position, results
  food,        \* ingest_lose_it.py: insert_food_log and the food_log table
  gluc,        \* ingest_glucose_data.py and the blood_glucose_meter table
  handed,      \* handed[kind]: positions of the records given to the loader, in order
  lz,          \* ingest_loseit.py: ingest_loseit_zip and its food_log rows
  scale        \* scale_ingest.py: main, the frame and what it stored

pipeVars == <<export, store, PGDB, BATCH_SIZE, runs, pc, idx, buf, ldr, txn,
              commitLog, atBoundary, lastBatch, runLog, handed>>
scripts == <<orch, food, gluc, lz, scale>>
vars == <<lz, scale, handed, food, gluc, orch, export, store, PGDB, BATCH_SIZE, runs, pc, idx, buf, ldr, txn,
          commitLog, atBoundary, lastBatch, runLog>>

DBs == {1, 2}
EmptyDb == [t \in Tables |-> <<>>]
EmptyBuf == [k \in Kinds |-> <<>>]
NoLdr == [kind |-> "none", rows |-> <<>>, i |-> 0, ret |-> "none", reset |-> FALSE]
NoBatch == [kind |-> "none", before |-> <<>>, n |-> 0, valid |-> <<>>,
            pending |-> <<>>, outcome |-> "none", ret |-> 0]

\* cursor.rowcount after executemany: psycopg2 adds up the rows each INSERT
\* of the batch affected; a row skipped by DO NOTHING affects none.
rowcount(inserted) == Len(inserted)

FlushPcs == {"flushQ", "flushC", "flushW"}
FinalPcs == {"finalQ", "finalC", "finalW"}
LoaderPcs == {"exec", "except"}
RunningPcs == {"loop", "return"} \cup FlushPcs \cup FinalPcs \cup LoaderPcs

\* The buffer a flush point looks at, and the statement after it.
KindAt(p) ==
  CASE p \in {"flushQ", "finalQ"} -> "quantity"
    [] p \in {"flushC", "finalC"} -> "category"
    [] OTHER -> "workout"
After(p) ==
  CASE p = "flushQ" -> "flushC"
    [] p = "flushC" -> "flushW"
    [] p = "flushW" -> "loop"
    [] p = "finalQ" -> "finalC"
    [] p = "finalC" -> "finalW"
    [] OTHER -> "return"

\* Faulty variant: the reader puts the new record in front.
BufferPrepend(b, e) == <<e>> \o b

\* list.append of the reader.
BufferAppend(b, e) == Append(b, e)

\* The rows of a sequence of [row, pos] entries.
RowsOf(entries) == [i \in 1..Len(entries) |-> entries[i].row]
LogOf(kind, entries) == [i \in 1..Len(entries) |-> [kind |-> kind, pos |-> entries[i].pos]]

\* The natural key of a stored row: its values on the unique columns.
NaturalKey(table, row) == [c \in UniqueColumns(table) |-> row[c]]
KeyExists(table, visible, row) ==
  \E i \in 1..Len(visible) : NaturalKey(table, visible[i]) = NaturalKey(table, row)

\* ingest_data.py not started.
NoArgs == [all |-> FALSE, apple |-> FALSE, loseit |-> FALSE, scale |-> FALSE,
           glucose |-> FALSE, start |-> NoneV, end |-> NoneV, file |-> NoneV]
NoEnv == [APPLE_HEALTH_ZIP_PATH |-> "", LOSEIT_ZIP_PATH |-> "",
          SCALE_CSV_PATH |-> "", GLUCOSE_CSV_PATH |-> "", exists |-> {},
          loseit_rows |-> <<>>, store_up |-> TRUE]
Sources == {"apple", "loseit", "scale", "glucose"}
NoResults == [src \in Sources |-> "unset"]
Running == -1
NoOrch == [pc |-> "off", args |-> NoArgs, env |-> NoEnv, results |-> NoResults,
           passed |-> [src \in Sources |-> NoneV], tried |-> {},
           frame |-> <<>>, exit |-> Running]

\* Nothing handed to a loader yet.
EmptyHanded == [k \in Kinds |-> <<>>]
PosOf(entries) == [i \in 1..Len(entries) |-> entries[i].pos]

\* A list that keeps its records after the loader was called.
ResetKeeps(list) == list

\* health_quantity_data = [] (and the two others) after a threshold flush.
Reset(list) == <<>>

\* ingest_loseit_zip and scale_ingest.main not started.
EmptyFrame == [columns |-> {}, rows |-> <<>>]
NoLz == [pc |-> "off", members |-> {}, header |-> {}, csv |-> <<>>,
         keyed |-> FALSE, up |-> TRUE, df |-> EmptyFrame, table |-> <<>>,
         warned |-> "none", count |-> 0, summary |-> NoneV]
NoScale == [pc |-> "off", present |-> FALSE, unit |-> "lb", csv |-> <<>>,
            df |-> <<>>, up |-> TRUE, fitted |-> FALSE, table |-> <<>>,
            error |-> "none", count |-> 0, printed |-> NoneV]

\* insert_food_log and ingest_glucose_data not started.
NoFood == [pc |-> "off", keyed |-> FALSE, df |-> <<>>, batch_size |-> 1,
           runs |-> 0, table |-> <<>>, before |-> <<>>, recs |-> <<>>, i |-> 0,
           txn |-> <<>>, total_inserted |-> 0, printed |-> NoneV,
           error |-> "none", reported |-> "none", sent |-> <<>>]
NoGluc == [pc |-> "off", csv |-> <<>>, present |-> FALSE, runs |-> 0,
           table |-> <<>>, before |-> <<>>, rows |-> <<>>, txn |-> <<>>,
           printed |-> NoneV, error |-> "none"]

Init ==
  /\ export \in SeqsUpTo(Elems, MaxLen)
  /\ store = [db \in DBs |-> EmptyDb]
  /\ PGDB = 1
  /\ BATCH_SIZE = 1
  /\ runs = 0
  /\ pc = "idle"
  /\ idx = 0
  /\ buf = EmptyBuf
  /\ ldr = NoLdr
  /\ txn = <<>>
  /\ commitLog = <<>>
  /\ atBoundary = EmptyDb
  /\ lastBatch = NoBatch
  /\ runLog = <<>>
  /\ orch = NoOrch
  /\ food = NoFood
  /\ gluc = NoGluc
  /\ handed = EmptyHanded
  /\ lz = NoLz
  /\ scale = NoScale

\* One invocation of the script: the archive is extracted, export.xml is
\* parsed, the three lists start empty and the connection is opened.
\* (Invocations that follow a cancelled one are not explored.)
StartRun ==
  /\ pc \in {"idle", "done"}
  /\ runs < MaxRuns
  /\ \E db \in (IF runs = 0 THEN {1} ELSE DBs), bs \in 1..MaxBatch :
       /\ PGDB' = db
       /\ BATCH_SIZE' = bs
       /\ atBoundary' = store[db]
       /\ runLog' = Append(runLog, [db |-> db, bs |-> bs, before |-> store[db],
                                    status |-> "running"])
  /\ runs' = runs + 1
  /\ pc' = "loop"
  /\ idx' = 1
  /\ buf' = EmptyBuf
  /\ ldr' = NoLdr
  /\ txn' = <<>>
  /\ commitLog' = <<>>
  /\ lastBatch' = NoBatch
  /\ handed' = EmptyHanded
  /\ UNCHANGED <<scripts, export, store>>

\* One iteration of `for elem in root` up to the flush checks: the element
\* is routed to its list, or ignored.
ReadElem ==
  /\ pc = "loop"
  /\ idx <= Len(export)
  /\ LET el == export[idx]
         kind == KindOf(el) IN
     buf' = IF kind = "none" THEN buf
            ELSE [buf EXCEPT ![kind] = BufferAppend(@, [d |-> DictOf(el), pos |-> idx])]
  /\ idx' = idx + 1
  /\ pc' = "flushQ"
  /\ UNCHANGED <<scripts, handed, export, store, PGDB, BATCH_SIZE, runs, ldr, txn, commitLog,
                 atBoundary, lastBatch, runLog>>

\* The for loop is exhausted.
LoopEnd ==
  /\ pc = "loop"
  /\ idx > Len(export)
  /\ pc' = "finalQ"
  /\ UNCHANGED <<scripts, handed, export, store, PGDB, BATCH_SIZE, runs, idx, buf, ldr, txn,
                 commitLog, atBoundary, lastBatch, runLog>>

\* A threshold check that lets a list grow past the batch size.
FlushDueLate(p) ==
  IF p \in FlushPcs THEN Len(buf[KindAt(p)]) > BATCH_SIZE
  ELSE buf[KindAt(p)] # <<>>

\* Whether the flush point p hands its list to the loader.
FlushDue(p) ==
  IF p \in FlushPcs THEN Len(buf[KindAt(p)]) >= BATCH_SIZE
  ELSE buf[KindAt(p)] # <<>>

\* A flush point whose list is not due.
FlushSkip ==
  /\ pc \in FlushPcs \cup FinalPcs
  /\ ~FlushDue(pc)
  /\ pc' = After(pc)
  /\ UNCHANGED <<scripts, handed, export, store, PGDB, BATCH_SIZE, runs, idx, buf, ldr, txn,
                 commitLog, atBoundary, lastBatch, runLog>>

\* A flush point calls its loader, which validates the batch; with no valid
\* record the loader returns 0 at once, else executemany begins.
FlushCall ==
  /\ pc \in FlushPcs \cup FinalPcs
  /\ FlushDue(pc)
  /\ LET kind == KindAt(pc)
         valid == ValidRows(kind, buf[kind]) IN
     /\ lastBatch' = [kind |-> kind, before |-> store[PGDB][TableOf(kind)],
                      n |-> Len(buf[kind]),
                      valid |-> RowsOf(valid), pending |-> <<>>,
                      outcome |-> IF valid = <<>> THEN "novalid" ELSE "running",
                      ret |-> 0]
     /\ IF valid = <<>>
          THEN /\ pc' = After(pc)
               /\ buf' = IF pc \in FlushPcs THEN [buf EXCEPT ![kind] = Reset(@)] ELSE buf
               /\ ldr' = NoLdr
          ELSE /\ pc' = "exec"
               /\ buf' = buf
               /\ ldr' = [kind |-> kind, rows |-> valid, i |-> 1, ret |-> After(pc),
                          reset |-> pc \in FlushPcs]
  /\ handed' = [handed EXCEPT ![KindAt(pc)] = @ \o PosOf(buf[KindAt(pc)])]
  /\ UNCHANGED <<scripts, export, store, PGDB, BATCH_SIZE, runs, idx, txn, commitLog,
                 atBoundary, runLog>>

\* executemany runs the INSERT for the next row of valid_records.
ExecRow ==
  /\ pc = "exec"
  /\ ldr.i <= Len(ldr.rows)
  /\ LET table == TableOf(ldr.kind)
         entry == ldr.rows[ldr.i]
         visible == store[PGDB][table] \o RowsOf(txn)
         outcome == InsertOutcome(table, ConflictTarget(ldr.kind), visible, entry.row) IN
     /\ txn' = IF outcome = "insert" THEN Append(txn, entry) ELSE txn
     /\ pc' = IF outcome = "error" THEN "except" ELSE "exec"
     /\ ldr' = IF outcome = "error" THEN ldr ELSE [ldr EXCEPT !.i = @ + 1]
  /\ UNCHANGED <<scripts, handed, export, store, PGDB, BATCH_SIZE, runs, idx, buf, commitLog,
                 atBoundary, lastBatch, runLog>>

\* The loader returns to the loop; a threshold flush then empties its list.
ReturnTo ==
  /\ pc' = ldr.ret
  /\ buf' = IF ldr.reset THEN [buf EXCEPT ![ldr.kind] = Reset(@)] ELSE buf
  /\ ldr' = NoLdr
  /\ txn' = <<>>

\* executemany finished: conn.commit().
Commit ==
  /\ pc = "exec"
  /\ ldr.i > Len(ldr.rows)
  /\ store' = [store EXCEPT ![PGDB][TableOf(ldr.kind)] = Committed(@, RowsOf(txn))]
  /\ commitLog' = commitLog \o LogOf(ldr.kind, txn)
  /\ atBoundary' = store'[PGDB]
  /\ lastBatch' = [lastBatch EXCEPT !.outcome = "committed", !.pending = RowsOf(txn),
                                     !.ret = rowcount(txn)]
  /\ ReturnTo
  /\ UNCHANGED <<scripts, handed, export, PGDB, BATCH_SIZE, runs, idx, runLog>>

\* An INSERT raised: except Exception -> conn.rollback(), return 0.
Rollback ==
  /\ pc = "except"
  /\ store' = [store EXCEPT ![PGDB][TableOf(ldr.kind)] = RolledBack(@, RowsOf(txn))]
  /\ atBoundary' = store'[PGDB]
  /\ lastBatch' = [lastBatch EXCEPT !.outcome = "rolledback", !.pending = RowsOf(txn)]
  /\ ReturnTo
  /\ UNCHANGED <<scripts, handed, export, PGDB, BATCH_SIZE, runs, idx, commitLog, runLog>>

SetStatus(st) == runLog' = [runLog EXCEPT ![Len(runLog)].status = st]

\* The run reaches `return True`; finally: conn.close().  The process's
\* lists go with it.
ReturnTrue ==
  /\ pc = "return"
  /\ pc' = "done"
  /\ idx' = 0
  /\ buf' = EmptyBuf
  /\ SetStatus("done")
  /\ handed' = EmptyHanded
  /\ UNCHANGED <<scripts, export, store, PGDB, BATCH_SIZE, runs, ldr, txn,
                 commitLog, atBoundary, lastBatch>>

\* KeyboardInterrupt at any point of the run: no `except Exception` catches
\* it, `finally: conn.close()` closes the connection with whatever the open
\* transaction holds, and __main__ reports the cancellation.
Interrupt ==
  /\ pc \in RunningPcs
  /\ store' = IF pc \in LoaderPcs
                THEN [store EXCEPT ![PGDB][TableOf(ldr.kind)] =
                        ClosedUncommitted(@, RowsOf(txn))]
                ELSE store
  /\ lastBatch' = IF pc \in LoaderPcs
                    THEN [lastBatch EXCEPT !.outcome = "interrupted",
                                           !.pending = RowsOf(txn)]
                    ELSE lastBatch
  /\ txn' = <<>>
  /\ ldr' = NoLdr
  /\ idx' = 0
  /\ buf' = EmptyBuf
  /\ pc' = "cancelled"
  /\ SetStatus("cancelled")
  /\ handed' = EmptyHanded
  /\ UNCHANGED <<scripts, export, PGDB, BATCH_SIZE, runs, commitLog, atBoundary>>

Next ==
  \/ StartRun
  \/ ReadElem
  \/ LoopEnd
  \/ FlushSkip
  \/ FlushCall
  \/ ExecRow
  \/ Commit
  \/ Rollback
  \/ ReturnTrue
  \/ Interrupt

Spec == Init /\ [][Next]_vars

(***************************************************************************)
(* ingest_data.py, the orchestrator.  Its steps are taken in the order of  *)
(* the script: the imports, the argument checks, one step per source and   *)
(* the summary with the exit status.  Line 153 of the script is read as    *)
(* the call ingest_loseit(ZIP_path=file_path, start_date=args.start,       *)
(* end_date=args.end) that follows its stray prefix.                       *)
(***************************************************************************)

\* datetime.strptime(s, '%Y-%m-%d'): the day number of a well-formed date,
\* ValueError (None here) for anything else.
DayOf(s) ==
  CASE s = "2024-01-01" -> 1
    [] s = "2024-01-15" -> 15
    [] s = "2024-01-31" -> 31
    [] OTHER -> 0
WellFormedDates == {"2024-01-01", "2024-01-15", "2024-01-31"}
strptime(s) == IF s \in WellFormedDates THEN Some(DayOf(s)) ELSE NoneV

\* An override handed to every requested source.
FilePathAlways(args, src) == args.file

\* file_path = args.file if args.<src> and not (any other toggle) else None
FilePath(args, src) ==
  IF args[src] /\ ~(\E o \in Sources \ {src} : args[o]) THEN args.file ELSE NoneV

\* zip_path / csv_path: the argument, or the environment default when None.
PathOr(given, default) == IF IsNone(given) THEN default ELSE Val(given)

\* def main(): takes no parameter; ingest_apple_health calls it with three.
MainParams == 0
ApplePositionalArgs == 3
RaisesTypeError(nargs, nparams) == nargs # nparams

\* ingest_apple_health: the Boolean it returns, and the rows its call of
\* apple_health_main leaves in the store.
ingest_apple_health(env, zip_path) ==
  LET path == PathOr(zip_path, env.APPLE_HEALTH_ZIP_PATH) IN
  IF path = "" THEN "false"
  ELSE IF path \notin env.exists THEN "false"
  ELSE IF RaisesTypeError(ApplePositionalArgs, MainParams) THEN "false"
  ELSE "true"

\* pd.read_ZIP is not an attribute of pandas: the AttributeError is caught by
\* the function's own handler, which returns an empty DataFrame.
process_loseit_ZIP(rows) == <<>>

\* The date filter of ingest_loseit: start <= log_date <= end, each bound
\* applied only when given.
DateFilter(df, start, end) ==
  SelectSeq(df, LAMBDA r :
     /\ (Truthy(start) => r.log_date >= DayOf(Val(start)))
     /\ (Truthy(end) => r.log_date <= DayOf(Val(end))))

\* ingest_loseit: the frame it hands to insert_food_log (empty when it
\* returns before that).
ingest_loseit(env, ZIP_path, start, end) ==
  LET path == PathOr(ZIP_path, env.LOSEIT_ZIP_PATH) IN
  IF path = "" THEN <<>>
  ELSE IF path \notin env.exists THEN <<>>
  ELSE LET df == process_loseit_ZIP(env.loseit_rows) IN
       IF df = <<>> THEN <<>>
       ELSE IF ~env.store_up THEN <<>>      \* connect_db() returned None
       ELSE DateFilter(df, start, end)

\* Placeholders: both return False, with or without a path.
ingest_smart_scale(env, csv_path) == "false"
ingest_glucose(env, csv_path) == "false"

Requested(args, src) == args.all \/ args[src]

ApplePath == "apple.zip"
LoseItPath == "loseit.zip"
CustomPath == "custom.zip"
qFeb == RecordElem(QT, T2, T2, Some("5"), Some("count"))

OrchArgs ==
  [all : BOOLEAN, apple : BOOLEAN, loseit : BOOLEAN, scale : BOOLEAN,
   glucose : BOOLEAN,
   start : {NoneV, Some(""), Some("2024-01-01"), Some("01/01/2024")},
   end : {NoneV, Some("2024-01-31"), Some("31 Jan")},
   file : {NoneV, Some(CustomPath)}]
OrchEnvs ==
  [APPLE_HEALTH_ZIP_PATH : {"", ApplePath}, LOSEIT_ZIP_PATH : {"", LoseItPath},
   SCALE_CSV_PATH : {"scale.csv"}, GLUCOSE_CSV_PATH : {""},
   exists : {{}, {ApplePath}, {ApplePath, LoseItPath},
             {ApplePath, LoseItPath, CustomPath}},
   loseit_rows : {<<[log_date |-> 15], [log_date |-> 32]>>},
   store_up : BOOLEAN]

InitOrch ==
  /\ export = <<qA, qFeb>>
  /\ store = [db \in DBs |-> EmptyDb]
  /\ PGDB = 1
  /\ BATCH_SIZE = 1
  /\ runs = 0
  /\ pc = "idle"
  /\ idx = 0
  /\ buf = EmptyBuf
  /\ ldr = NoLdr
  /\ txn = <<>>
  /\ commitLog = <<>>
  /\ atBoundary = EmptyDb
  /\ lastBatch = NoBatch
  /\ runLog = <<>>
  /\ food = NoFood
  /\ gluc = NoGluc
  /\ handed = EmptyHanded
  /\ lz = NoLz
  /\ scale = NoScale
  /\ \E a \in OrchArgs, e \in OrchEnvs :
       orch = [NoOrch EXCEPT !.pc = "import", !.args = a, !.env = e]

\* successful == total and total > 0, over the entries of results.
ExitStatus(results) ==
  LET ran == {src \in Sources : results[src] # "unset"}
      successful == Cardinality({src \in ran : results[src] = "true"})
      total == Cardinality(ran)
  IN IF successful = total /\ total > 0 THEN 0 ELSE 1

Exit(code) == [orch EXCEPT !.pc = "exit", !.exit = code]

\* from convert_apple_health import main: the module exits with status 1
\* at import when APPLE_HEALTH_ZIP_PATH is not set.
OrchImport ==
  /\ orch.pc = "import"
  /\ orch' = IF orch.env.APPLE_HEALTH_ZIP_PATH = ""
               THEN Exit(1)
               ELSE [orch EXCEPT !.pc = "args"]
  /\ UNCHANGED <<pipeVars, food, gluc, lz, scale>>

\* The argument checks of main.
OrchArgsCheck ==
  /\ orch.pc = "args"
  /\ LET a == orch.args IN
     orch' = IF ~(\E src \in Sources : Requested(a, src)) THEN Exit(1)
             ELSE IF Truthy(a.start) /\ IsNone(strptime(Val(a.start))) THEN Exit(1)
             ELSE IF Truthy(a.end) /\ IsNone(strptime(Val(a.end))) THEN Exit(1)
             ELSE [orch EXCEPT !.pc = "apple"]
  /\ UNCHANGED <<pipeVars, food, gluc, lz, scale>>

OrchApple ==
  /\ orch.pc = "apple"
  /\ orch' = IF Requested(orch.args, "apple")
               THEN [orch EXCEPT !.pc = "loseit",
                       !.passed["apple"] = FilePath(orch.args, "apple"),
                       !.tried = @ \cup {"apple"},
                       !.results["apple"] =
                          ingest_apple_health(orch.env, FilePath(orch.args, "apple"))]
               ELSE [orch EXCEPT !.pc = "loseit"]
  /\ UNCHANGED <<pipeVars, food, gluc, lz, scale>>

OrchLoseIt ==
  /\ orch.pc = "loseit"
  /\ orch' = IF Requested(orch.args, "loseit")
               THEN [orch EXCEPT !.pc = "scale",
                       !.passed["loseit"] = FilePath(orch.args, "loseit"),
                       !.tried = @ \cup {"loseit"},
                       !.frame = ingest_loseit(orch.env, FilePath(orch.args, "loseit"),
                                               orch.args.start, orch.args.end),
                       !.results["loseit"] = "true"]
               ELSE [orch EXCEPT !.pc = "scale"]
  /\ UNCHANGED <<pipeVars, food, gluc, lz, scale>>

OrchScale ==
  /\ orch.pc = "scale"
  /\ orch' = IF Requested(orch.args, "scale")
               THEN [orch EXCEPT !.pc = "glucose",
                       !.passed["scale"] = FilePath(orch.args, "scale"),
                       !.tried = @ \cup {"scale"},
                       !.results["scale"] =
                          ingest_smart_scale(orch.env, FilePath(orch.args, "scale"))]
               ELSE [orch EXCEPT !.pc = "glucose"]
  /\ UNCHANGED <<pipeVars, food, gluc, lz, scale>>

OrchGlucose ==
  /\ orch.pc = "glucose"
  /\ orch' = IF Requested(orch.args, "glucose")
               THEN [orch EXCEPT !.pc = "summary",
                       !.passed["glucose"] = FilePath(orch.args, "glucose"),
                       !.tried = @ \cup {"glucose"},
                       !.results["glucose"] =
                          ingest_glucose(orch.env, FilePath(orch.args, "glucose"))]
               ELSE [orch EXCEPT !.pc = "summary"]
  /\ UNCHANGED <<pipeVars, food, gluc, lz, scale>>

\* return successful == total and total > 0; sys.exit(0 if success else 1)
OrchSummary ==
  /\ orch.pc = "summary"
  /\ orch' = Exit(ExitStatus(orch.results))
  /\ UNCHANGED <<pipeVars, food, gluc, lz, scale>>

NextOrch ==
  \/ OrchImport
  \/ OrchArgsCheck
  \/ OrchApple
  \/ OrchLoseIt
  \/ OrchScale
  \/ OrchGlucose
  \/ OrchSummary

SpecOrch == InitOrch /\ [][NextOrch]_vars

(***************************************************************************)
(* ingest_lose_it.py: insert_food_log as ingest_loseit calls it, against   *)
(* the food_log table.  create_health_database.py declares the table with  *)
(* CREATE TABLE IF NOT EXISTS, so a food_log made earlier keeps its own    *)
(* constraints: `keyed` tells whether the table carries the unique         *)
(* constraint (log_date, meal_type, food_item) that the loader's           *)
(* ON CONFLICT names, besides the declared one.                            *)
(***************************************************************************)
MaxFrame == 2

\* The pipeline of convert_apple_health.py, not running.
IdlePipeline ==
  /\ export = <<>>
  /\ store = [db \in DBs |-> EmptyDb]
  /\ PGDB = 1
  /\ BATCH_SIZE = 1
  /\ runs = 0
  /\ pc = "idle"
  /\ idx = 0
  /\ buf = EmptyBuf
  /\ ldr = NoLdr
  /\ txn = <<>>
  /\ commitLog = <<>>
  /\ atBoundary = EmptyDb
  /\ lastBatch = NoBatch
  /\ runLog = <<>>
  /\ handed = EmptyHanded

\* Rows of the DataFrame: a missing key or empty value is None.
FoodRow(d, meal, item, cal) ==
  [log_date |-> d, meal_type |-> meal, food_item |-> item,
   calories_consumed |-> cal]
fA == FoodRow(Some("2024-01-15"), Some("Lunch"), Some("Apple"), Some(95))
fA2 == FoodRow(Some("2024-01-15"), Some("Lunch"), Some("Apple"), Some(100))
fNoItem == FoodRow(Some("2024-01-15"), Some("Lunch"), NoneV, Some(95))
fBadDate == FoodRow(Some("yesterday"), Some("Lunch"), Some("Apple"), Some(95))
fBig == FoodRow(Some("2024-01-31"), Some("Lunch"), Some("Apple"), Some(1000000))
fNoCal == FoodRow(Some("2024-01-31"), Some("Dinner"), Some("Bread"), NoneV)
FoodRows == {fA, fA2, fNoItem, fBadDate, fBig, fNoCal}

\* pd.to_datetime(x, errors='coerce'): NaT for None and for what is no date.
to_datetime(o) == IF IsNone(o) THEN NoneV ELSE strptime(Val(o))

\* x or default
OrElse(o, default) == IF Truthy(o) THEN Val(o) ELSE default
\* float(row.get(col, 0) or ... or 0)
FloatOrZero(o) == IF IsNone(o) \/ Val(o) = 0 THEN 0 ELSE Val(o)

\* One tuple of records_to_insert, with the DataFrame row it came from.
FoodRecord(row, pos) ==
  [log_date |-> Val(to_datetime(row.log_date)),
   meal_type |-> OrElse(row.meal_type, "Unknown"),
   food_item |-> OrElse(row.food_item, "Unknown"),
   calories_consumed |-> FloatOrZero(row.calories_consumed),
   source |-> "LoseIt",
   pos |-> pos]

\* records_to_insert: rows whose date is NaT are skipped.
RECURSIVE FoodRecordsFrom(_, _)
FoodRecordsFrom(df, pos) ==
  IF pos > Len(df) THEN <<>>
  ELSE IF IsNone(to_datetime(df[pos].log_date))
         THEN FoodRecordsFrom(df, pos + 1)
         ELSE <<FoodRecord(df[pos], pos)>> \o FoodRecordsFrom(df, pos + 1)
FoodRecords(df) == FoodRecordsFrom(df, 1)

\* food_log: the loader's ON CONFLICT target and the table's constraints.
\* The declared constraint spans log_time, brand and serving_size, which
\* the loader leaves NULL, so it never reports a conflict.
FoodConflictTarget == {"log_date", "meal_type", "food_item"}
FoodDeclaredUnique ==
  {"log_date", "log_time", "meal_type", "food_item", "brand", "serving_size"}
FoodConstraints(keyed) ==
  IF keyed THEN {FoodDeclaredUnique, FoodConflictTarget} ELSE {FoodDeclaredUnique}
FoodLimit == 1000000
FoodKey(r) == <<r.log_date, r.meal_type, r.food_item>>

\* One INSERT ... ON CONFLICT (log_date, meal_type, food_item) DO NOTHING.
FoodInsertOutcome(keyed, visible, r) ==
  IF FoodConflictTarget \notin FoodConstraints(keyed) THEN "no_constraint"
  ELSE IF Abs(r.calories_consumed) >= FoodLimit THEN "overflow"
  ELSE IF \E i \in 1..Len(visible) : FoodKey(visible[i]) = FoodKey(r) THEN "skip"
  ELSE "insert"

\* cur.executemany(insert_query, batch): the rows added before it ends or
\* raises.
RECURSIVE FoodExecMany(_, _, _, _)
FoodExecMany(keyed, visible, added, batch) ==
  IF batch = <<>> THEN [added |-> added, err |-> "none"]
  ELSE LET out == FoodInsertOutcome(keyed, visible \o added, Head(batch)) IN
       IF out \in {"no_constraint", "overflow"} THEN [added |-> added, err |-> out]
       ELSE FoodExecMany(keyed, visible,
                         IF out = "insert" THEN Append(added, Head(batch)) ELSE added,
                         Tail(batch))

Min(a, b) == IF a < b THEN a ELSE b

\* total_inserted += len(batch)
CountBatch(total, batch, added) == total + Len(batch)

InitFood ==
  /\ IdlePipeline
  /\ orch = NoOrch
  /\ gluc = NoGluc
  /\ lz = NoLz
  /\ scale = NoScale
  /\ \E k \in BOOLEAN, df \in SeqsUpTo(FoodRows, MaxFrame), bs \in 1..MaxBatch :
       food = [NoFood EXCEPT !.pc = "idle", !.keyed = k, !.df = df,
                             !.batch_size = bs]

\* ingest_loseit from connect_db() on, and insert_food_log up to the loop.
FoodStart ==
  /\ food.pc \in {"idle", "done"}
  /\ food.runs < MaxRuns
  /\ \E up \in BOOLEAN :
       LET recs == FoodRecords(food.df)
           f == [food EXCEPT !.runs = @ + 1, !.before = food.table, !.recs = <<>>,
                             !.i = 0, !.txn = <<>>, !.total_inserted = 0,
                             !.printed = NoneV, !.error = "none",
                             !.reported = "none", !.sent = <<>>]
       IN food' = IF ~up
                    THEN [f EXCEPT !.pc = "done", !.reported = "noconnect"]
                  ELSE IF food.df = <<>> \/ recs = <<>>
                    THEN [f EXCEPT !.pc = "close"]
                  ELSE [f EXCEPT !.pc = "batch", !.recs = recs]
  /\ UNCHANGED <<pipeVars, orch, gluc, lz, scale>>

\* One turn of the loop: executemany, commit, count.
FoodBatch ==
  /\ food.pc = "batch"
  /\ food.i < Len(food.recs)
  /\ LET batch == SubSeq(food.recs, food.i + 1,
                         Min(food.i + food.batch_size, Len(food.recs)))
         res == FoodExecMany(food.keyed, food.table, <<>>, batch)
     IN food' = IF res.err # "none"
                  THEN [food EXCEPT !.pc = "except", !.txn = res.added,
                                    !.error = res.err,
                                    !.sent = @ \o PosOf(batch)]
                  ELSE [food EXCEPT !.table = @ \o res.added,
                                    !.sent = @ \o PosOf(batch),
                                    !.total_inserted =
                                        CountBatch(@, batch, res.added),
                                    !.i = @ + food.batch_size]
  /\ UNCHANGED <<pipeVars, orch, gluc, lz, scale>>

\* The loop is over: print the total; finally: cur.close().
FoodTotal ==
  /\ food.pc = "batch"
  /\ food.i >= Len(food.recs)
  /\ food' = [food EXCEPT !.pc = "close", !.printed = Some(food.total_inserted)]
  /\ UNCHANGED <<pipeVars, orch, gluc, lz, scale>>

\* except Exception: conn.rollback(); the batches left are not run.
FoodExcept ==
  /\ food.pc = "except"
  /\ food' = [food EXCEPT !.pc = "close", !.txn = <<>>]
  /\ UNCHANGED <<pipeVars, orch, gluc, lz, scale>>

\* Back in ingest_loseit: conn.close(), "insertion process complete".
FoodClose ==
  /\ food.pc = "close"
  /\ food' = [food EXCEPT !.pc = "done", !.reported = "complete"]
  /\ UNCHANGED <<pipeVars, orch, gluc, lz, scale>>

NextFood ==
  \/ FoodStart
  \/ FoodBatch
  \/ FoodTotal
  \/ FoodExcept
  \/ FoodClose

SpecFood == InitFood /\ [][NextFood]_vars

(***************************************************************************)
(* ingest_glucose_data.py: the CSV is read, rows without a timestamp or a  *)
(* glucose value are dropped, and the rest goes to blood_glucose_meter in  *)
(* one executemany.                                                        *)
(***************************************************************************)
MaxCsv == 3

GlucoseRow(d, t, v) == [date |-> d, time |-> t, glucose |-> v]
gA == GlucoseRow(Some("2024-01-15"), Some("08:00"), Some(100))
gB == GlucoseRow(Some("2024-01-15"), Some("21:30"), Some(140))
gBadTime == GlucoseRow(Some("2024-01-15"), Some("25:99"), Some(100))
gNoDate == GlucoseRow(NoneV, Some("08:00"), Some(100))
gNoValue == GlucoseRow(Some("2024-01-15"), Some("08:00"), NoneV)
gHigh == GlucoseRow(Some("2024-01-31"), Some("08:00"), Some(10000))
GlucoseRows == {gA, gB, gBadTime, gNoDate, gNoValue, gHigh}

\* Minutes of a well-formed time of day.
MinuteOf(t) ==
  CASE t = "08:00" -> 480
    [] t = "21:30" -> 1290
    [] OTHER -> 0
WellFormedTimes == {"08:00", "21:30"}
MinutesPerDay == 1440

\* pd.to_datetime(df['date'] + ' ' + df['time'], errors='coerce'): NaT when
\* a part is missing or the combination is no timestamp.
CombineDateTime(d, t) ==
  IF IsNone(d) \/ IsNone(t) THEN NoneV
  ELSE IF Val(d) \in WellFormedDates /\ Val(t) \in WellFormedTimes
    THEN Some(DayOf(Val(d)) * MinutesPerDay + MinuteOf(Val(t)))
  ELSE NoneV

\* One row of the frame after the column assignments, with its CSV line.
GlucoseRecord(row, pos) ==
  [reading_time |-> CombineDateTime(row.date, row.time),
   glucose_value |-> row.glucose,
   source |-> NoneV, device_id |-> NoneV,
   pos |-> pos]

\* A frame that keeps every row of the CSV.
KeepAll(recs) == recs

\* df.dropna(subset=['datetime', 'Blood Glucose (mg/dL)'])
dropna(recs) ==
  SelectSeq(recs, LAMBDA r : ~IsNone(r.reading_time) /\ ~IsNone(r.glucose_value))

GlucoseFrame(csv) == dropna([i \in 1..Len(csv) |-> GlucoseRecord(csv[i], i)])

\* blood_glucose_meter: reading_time NOT NULL, glucose_value NUMERIC(6,2),
\* UNIQUE (reading_time, source, device_id).  The INSERT names neither
\* source nor device_id, so both are NULL and the constraint never reports
\* a conflict.
GlucoseLimit == 10000
GlucoseUnique == {"reading_time", "source", "device_id"}

\* One INSERT ... ON CONFLICT DO NOTHING.
GlucoseInsertOutcome(visible, r) ==
  IF IsNone(r.reading_time) THEN "error"
  ELSE IF ~IsNone(r.glucose_value) /\ Abs(Val(r.glucose_value)) >= GlucoseLimit
    THEN "error"
  ELSE IF \E i \in 1..Len(visible) : UniqueCollision(GlucoseUnique, visible[i], r)
    THEN "skip"
  ELSE "insert"

InitGluc ==
  /\ IdlePipeline
  /\ orch = NoOrch
  /\ food = NoFood
  /\ lz = NoLz
  /\ scale = NoScale
  /\ \E csv \in SeqsUpTo(GlucoseRows, MaxCsv), present \in BOOLEAN :
       gluc = [NoGluc EXCEPT !.pc = "idle", !.csv = csv, !.present = present]

\* ingest_glucose_data up to the cursor: path check, read_csv, dropna,
\* connection.
GlucStart ==
  /\ gluc.pc \in {"idle", "done"}
  /\ gluc.runs < MaxRuns
  /\ \E up \in BOOLEAN :
       LET g == [gluc EXCEPT !.runs = @ + 1, !.before = gluc.table, !.rows = <<>>,
                             !.txn = <<>>, !.printed = NoneV, !.error = "none"]
       IN gluc' = IF ~gluc.present THEN [g EXCEPT !.pc = "done", !.error = "nofile"]
                  ELSE IF ~up THEN [g EXCEPT !.pc = "done", !.error = "noconnect"]
                  ELSE [g EXCEPT !.pc = "insert", !.rows = GlucoseFrame(gluc.csv)]
  /\ UNCHANGED <<pipeVars, orch, food, lz, scale>>

\* executemany runs the INSERT for the next row.
GlucInsert ==
  /\ gluc.pc = "insert"
  /\ gluc.rows # <<>>
  /\ LET r == Head(gluc.rows)
         out == GlucoseInsertOutcome(gluc.table \o gluc.txn, r)
     IN gluc' = IF out = "error"
                  THEN [gluc EXCEPT !.pc = "except", !.error = "insert"]
                  ELSE [gluc EXCEPT !.rows = Tail(@),
                                    !.txn = IF out = "insert" THEN Append(@, r) ELSE @]
  /\ UNCHANGED <<pipeVars, orch, food, lz, scale>>

\* conn.commit(); print the rowcount; finally: close.
GlucCommit ==
  /\ gluc.pc = "insert"
  /\ gluc.rows = <<>>
  /\ gluc' = [gluc EXCEPT !.pc = "done", !.table = Committed(@, gluc.txn),
                          !.printed = Some(rowcount(gluc.txn)), !.txn = <<>>]
  /\ UNCHANGED <<pipeVars, orch, food, lz, scale>>

\* except Exception: conn.rollback(); finally: close.
GlucExcept ==
  /\ gluc.pc = "except"
  /\ gluc' = [gluc EXCEPT !.pc = "done", !.table = RolledBack(@, gluc.txn),
                          !.txn = <<>>]
  /\ UNCHANGED <<pipeVars, orch, food, lz, scale>>

NextGluc ==
  \/ GlucStart
  \/ GlucInsert
  \/ GlucCommit
  \/ GlucExcept

SpecGluc == InitGluc /\ [][NextGluc]_vars


(***************************************************************************)
(* ingest_loseit.py: the Lose It archive loader.  load_csv reads the       *)
(* member food-logs.csv of the archive, the columns are renamed to those   *)
(* of food_log, insert_df sends the rows and the summary is printed.       *)
(***************************************************************************)
LzMember == "food-logs.csv"
LzMembers == {LzMember, "weights.csv"}

\* Normalised column names of the member, as exported and with one missing.
LzHeader ==
  {"date", "name", "meal", "calories", "fat_g", "protein_g",
   "carbohydrates_g", "sugars_g", "fiber_g", "sodium_mg"}
LzHeaders == {LzHeader, LzHeader \ {"fiber_g"}}

\* food_df.rename(columns={...})
RenameColumn(c) ==
  CASE c = "date" -> "log_date"
    [] c = "name" -> "food_item"
    [] c = "meal" -> "meal_type"
    [] c = "calories" -> "calories_consumed"
    [] c = "carbohydrates_g" -> "carbs_g"
    [] c = "sugars_g" -> "sugar_g"
    [] OTHER -> c
rename(df) == [df EXCEPT !.columns = {RenameColumn(c) : c \in @}]

\* The cols argument of insert_df.
LzCols ==
  {"log_date", "food_item", "meal_type", "calories_consumed", "fat_g",
   "protein_g", "carbs_g", "sugar_g", "fiber_g", "sodium_mg"}

\* load_csv(name): any exception, a missing member included, is printed
\* and answered with an empty DataFrame.
load_csv(members, name, header, csv) ==
  IF name \in members THEN [columns |-> header, rows |-> csv] ELSE EmptyFrame

\* df.empty
FrameEmpty(df) == df.columns = {} \/ df.rows = <<>>

\* One INSERT INTO food_log ... ON CONFLICT DO NOTHING of insert_df: the
\* text of log_date must be a date, calories_consumed is NUMERIC(8,2), and
\* without a conflict target any unique constraint of the table applies.
LzInsertOutcome(keyed, visible, r) ==
  IF IsNone(to_datetime(r.log_date)) THEN "bad_date"
  ELSE IF ~IsNone(r.calories_consumed) /\ Abs(Val(r.calories_consumed)) >= FoodLimit
         THEN "overflow"
  ELSE IF keyed /\ \E i \in 1..Len(visible) :
                      /\ visible[i].log_date = r.log_date
                      /\ visible[i].meal_type = r.meal_type
                      /\ visible[i].food_item = r.food_item
         THEN "skip"
  ELSE "insert"

\* cur.executemany(query, rows): the rows added, or the error that stops it.
RECURSIVE LzExecMany(_, _, _, _)
LzExecMany(keyed, visible, added, rows) ==
  IF rows = <<>> THEN [error |-> "none", added |-> added]
  ELSE LET o == LzInsertOutcome(keyed, visible \o added, Head(rows)) IN
       IF o \in {"bad_date", "overflow"} THEN [error |-> o, added |-> <<>>]
       ELSE LzExecMany(keyed, visible,
                       IF o = "insert" THEN Append(added, Head(rows)) ELSE added,
                       Tail(rows))

InitZip ==
  /\ IdlePipeline
  /\ orch = NoOrch
  /\ food = NoFood
  /\ gluc = NoGluc
  /\ scale = NoScale
  /\ \E members \in SUBSET LzMembers, header \in LzHeaders,
        csv \in SeqsUpTo(FoodRows, MaxFrame), keyed \in BOOLEAN, up \in BOOLEAN :
       lz = [NoLz EXCEPT !.pc = "load", !.members = members, !.header = header,
                         !.csv = csv, !.keyed = keyed, !.up = up]

\* food_df = load_csv('food-logs.csv'), then the rename.
LzLoad ==
  /\ lz.pc = "load"
  /\ lz' = [lz EXCEPT !.pc = "insert_df",
                      !.df = rename(load_csv(lz.members, LzMember, lz.header, lz.csv)),
                      !.warned = IF LzMember \in lz.members THEN "none"
                                 ELSE "could_not_load"]
  /\ UNCHANGED <<pipeVars, orch, food, gluc, scale>>

\* insert_df up to the cursor: an empty frame and a frame that lacks a
\* column return 0; conn.cursor() on a failed connection raises outside
\* any try.
LzInsertDf ==
  /\ lz.pc = "insert_df"
  /\ lz' = IF FrameEmpty(lz.df) THEN [lz EXCEPT !.pc = "summary", !.count = 0]
           ELSE IF ~(LzCols \subseteq lz.df.columns)
                  THEN [lz EXCEPT !.pc = "summary", !.count = 0,
                                  !.warned = "missing_columns"]
           ELSE IF ~lz.up THEN [lz EXCEPT !.pc = "crashed"]
           ELSE [lz EXCEPT !.pc = "executemany"]
  /\ UNCHANGED <<pipeVars, orch, food, gluc, scale>>

\* executemany, then commit and return cur.rowcount, or rollback and
\* return 0.
LzExecute ==
  /\ lz.pc = "executemany"
  /\ LET res == LzExecMany(lz.keyed, lz.table, <<>>, lz.df.rows) IN
     lz' = IF res.error = "none"
             THEN [lz EXCEPT !.pc = "summary", !.table = @ \o res.added,
                             !.count = rowcount(res.added)]
             ELSE [lz EXCEPT !.pc = "summary", !.count = 0,
                             !.warned = "insert_failed"]
  /\ UNCHANGED <<pipeVars, orch, food, gluc, scale>>

\* print("Ingestion Summary from Lose It ZIP:"), one line per table.
LzSummary ==
  /\ lz.pc = "summary"
  /\ lz' = [lz EXCEPT !.pc = "done", !.summary = Some(lz.count)]
  /\ UNCHANGED <<pipeVars, orch, food, gluc, scale>>

NextZip ==
  \/ LzLoad
  \/ LzInsertDf
  \/ LzExecute
  \/ LzSummary

SpecZip == InitZip /\ [][NextZip]_vars

(***************************************************************************)
(* One invocation of convert_apple_health.py on exports that exercise the  *)
(* reader's routing and the loaders' validation: Records of another or no  *)
(* type, unparsable dates and values, Workouts without an activity type    *)
(* and with a duration of 0.                                               *)
(***************************************************************************)
\* a quantity Record whose value is no number
qNoNumber == RecordElem(QT, T1, T1, Some("n/a"), Some("count"))
\* Records of another type and without a type attribute
rOtherType == RecordElem(Some("HKDataTypeSleepDurationGoal"), T1, T2, Some("5"), NoneV)
rNoType == RecordElem(NoneV, T1, T2, Some("5"), NoneV)
\* a category Record whose endDate is empty
cBadEnd == RecordElem(CT, T1, Some(""), Some("HKCategoryValueSleepAnalysisInBed"), NoneV)
\* Workouts without an activity type, and with a supplied duration of 0
wNoAct == WorkoutElem(NoneV, T1, T2, Some("30"))
wZeroDur == WorkoutElem(Some("HKWorkoutActivityTypeYoga"), T1, T2, Some("0"))

ReaderElems ==
  {qA, qBig, qBadDate, qNoNumber, rOtherType, rNoType, cA, cBadEnd,
   wA, wNoAct, wZeroDur, other}

InitReader ==
  /\ export \in SeqsUpTo(ReaderElems, MaxLen)
  /\ store = [db \in DBs |-> EmptyDb]
  /\ PGDB = 1
  /\ BATCH_SIZE = 1
  /\ runs = MaxRuns - 1
  /\ pc = "idle"
  /\ idx = 0
  /\ buf = EmptyBuf
  /\ ldr = NoLdr
  /\ txn = <<>>
  /\ commitLog = <<>>
  /\ atBoundary = EmptyDb
  /\ lastBatch = NoBatch
  /\ runLog = <<>>
  /\ handed = EmptyHanded
  /\ orch = NoOrch
  /\ food = NoFood
  /\ gluc = NoGluc
  /\ lz = NoLz
  /\ scale = NoScale

SpecReader == InitReader /\ [][Next]_vars

(***************************************************************************)
(* scale_ingest.py: the smart scale CSV.  Its header names the weight      *)
(* column "Weight (lb)" or "Weight (kg)"; normalize_columns turns these    *)
(* into weight_lb and weight_kg.  Weights are whole numbers in the CSV and *)
(* millionths of a kilogram in the frame, so that the factor 0.453592 is   *)
(* exact.  body_measurements as create_health_database.py declares it has  *)
(* no column timestamp or weight_kg; `fitted` says whether the table in    *)
(* place has the columns and the constraint (timestamp, device_id) that    *)
(* insert_scale_data names.                                                *)
(***************************************************************************)
PoundsToKg == 453592
PerUnit == 1000000

ScaleRow(d, w) == [date |-> d, weight |-> w]
sA == ScaleRow(Some("2024-01-15"), Some(150))
sB == ScaleRow(Some("2024-01-31"), Some(68))
sBadDate == ScaleRow(Some("yesterday"), Some(150))
sNoWeight == ScaleRow(Some("2024-01-15"), NoneV)
ScaleRows == {sA, sB, sBadDate, sNoWeight}

\* normalize_columns of the weight column's header.
normalize_columns(unit) == IF unit = "lb" THEN "weight_lb" ELSE "weight_kg"

\* df.rename(columns=column_map): weight_lb becomes weight_kg.
ColumnMap(c) == IF c = "weight_lb" THEN "weight_kg" ELSE c

\* pd.to_numeric(df['weight_kg'], errors='coerce') * 0.453592, applied to
\* whatever column is named weight_kg after the rename.
TimesFactor(csv_column, w) ==
  IF IsNone(w) THEN NoneV
  ELSE IF ColumnMap(csv_column) = "weight_kg" THEN Some(Val(w) * PoundsToKg)
  ELSE Some(Val(w) * PerUnit)

\* process_scale_csv: timestamp parsed, rows without one dropped, weight
\* converted, source and device_id filled in.
RECURSIVE ScaleFrameFrom(_, _, _)
ScaleFrameFrom(unit, csv, pos) ==
  IF pos > Len(csv) THEN <<>>
  ELSE IF IsNone(to_datetime(csv[pos].date))
         THEN ScaleFrameFrom(unit, csv, pos + 1)
         ELSE <<[timestamp |-> Val(to_datetime(csv[pos].date)),
                 weight_kg |-> TimesFactor(normalize_columns(unit), csv[pos].weight),
                 source |-> "SmartScale", device_id |-> "DefaultScale",
                 pos |-> pos]>>
              \o ScaleFrameFrom(unit, csv, pos + 1)
process_scale_csv(unit, csv) == ScaleFrameFrom(unit, csv, 1)

\* executemany of INSERT ... ON CONFLICT (timestamp, device_id) DO NOTHING.
RECURSIVE ScaleExecMany(_, _, _)
ScaleExecMany(visible, added, rows) ==
  IF rows = <<>> THEN added
  ELSE LET r == Head(rows)
           seen == visible \o added IN
       ScaleExecMany(visible,
                     IF \E i \in 1..Len(seen) :
                          /\ seen[i].timestamp = r.timestamp
                          /\ seen[i].device_id = r.device_id
                       THEN added ELSE Append(added, r),
                     Tail(rows))

InitScale ==
  /\ IdlePipeline
  /\ orch = NoOrch
  /\ food = NoFood
  /\ gluc = NoGluc
  /\ lz = NoLz
  /\ \E present \in BOOLEAN, unit \in {"lb", "kg"}, up \in BOOLEAN,
        fitted \in BOOLEAN, csv \in SeqsUpTo(ScaleRows, MaxFrame) :
       scale = [NoScale EXCEPT !.pc = "start", !.present = present,
                               !.unit = unit, !.up = up, !.fitted = fitted,
                               !.csv = csv]

\* main up to the connection: process_scale_csv; no file or an empty frame
\* ends the run.
ScaleProcess ==
  /\ scale.pc = "start"
  /\ LET df == process_scale_csv(scale.unit, scale.csv) IN
     scale' = IF ~scale.present \/ df = <<>>
                THEN [scale EXCEPT !.pc = "done"]
                ELSE [scale EXCEPT !.pc = "connect", !.df = df]
  /\ UNCHANGED <<pipeVars, orch, food, gluc, lz>>

\* conn = get_db_connection(); if not conn: return
ScaleConnect ==
  /\ scale.pc = "connect"
  /\ scale' = [scale EXCEPT !.pc = IF scale.up THEN "insert" ELSE "done"]
  /\ UNCHANGED <<pipeVars, orch, food, gluc, lz>>

\* insert_scale_data: executemany and commit, or the INSERT raises (the
\* table lacks the columns or the constraint), rollback, 0.
ScaleInsert ==
  /\ scale.pc = "insert"
  /\ scale' = IF scale.fitted
                THEN LET added == ScaleExecMany(scale.table, <<>>, scale.df) IN
                     [scale EXCEPT !.pc = "print", !.table = @ \o added,
                                   !.count = rowcount(added)]
                ELSE [scale EXCEPT !.pc = "print", !.count = 0,
                                   !.error = "insert_failed"]
  /\ UNCHANGED <<pipeVars, orch, food, gluc, lz>>

\* print("Successfully inserted ..."); finally: conn.close()
ScalePrint ==
  /\ scale.pc = "print"
  /\ scale' = [scale EXCEPT !.pc = "done", !.printed = Some(scale.count)]
  /\ UNCHANGED <<pipeVars, orch, food, gluc, lz>>

NextScale ==
  \/ ScaleProcess
  \/ ScaleConnect
  \/ ScaleInsert
  \/ ScalePrint

SpecScale == InitScale /\ [][NextScale]_vars

\* ------------------------------------------------------------ properties
\* The rows of one database that do not raise when inserted alone.
Acceptable(kind, row) ==
  InsertOutcome(TableOf(kind), ConflictTarget(kind), <<>>, row) = "insert"
KeySet(table, rows) == {NaturalKey(table, rows[i]) : i \in 1..Len(rows)}

\* C1: Idempotence.  When an invocation completes against a database that
\* an earlier completed invocation (same export, same batch size) already
\* loaded, it inserts no row: the database is as it was before it.
C1_Idempotent ==
  (pc = "done" /\ \E m \in 1..(Len(runLog) - 1) :
       /\ runLog[m].status = "done"
       /\ runLog[m].db = PGDB
       /\ runLog[m].bs = BATCH_SIZE)
    => store[PGDB] = runLog[Len(runLog)].before

\* C2: In every reachable state every table of every database holds at most
\* one row per natural key.
C2_OneRowPerKey ==
  \A db \in DBs, t \in Tables :
    \A i, j \in 1..Len(store[db][t]) :
      i < j => NaturalKey(t, store[db][t][i]) # NaturalKey(t, store[db][t][j])

\* C3: When the loader executes the INSERT of a record whose natural key is
\* already in the store, no row is added, the stored rows stay as they are
\* and the statement does not raise.
C3_ConflictSkipped ==
  [][(/\ pc = "exec"
      /\ pc' \in {"exec", "except"}
      /\ ldr.i <= Len(ldr.rows)
      /\ KeyExists(TableOf(ldr.kind), store[PGDB][TableOf(ldr.kind)],
                   ldr.rows[ldr.i].row))
       => (txn' = txn /\ store' = store /\ pc' = "exec")]_vars

\* C4: Batch-size invariance.  When the same export has been loaded once
\* into database 1 and once into database 2, both empty before, with
\* whatever batch sizes, both hold the same natural keys in every table.
C4_BatchSizeInvariant ==
  (/\ pc = "done"
   /\ Len(runLog) = 2
   /\ runLog[1].status = "done"
   /\ runLog[1].db = 1
   /\ runLog[2].db = 2)
    => \A t \in Tables : KeySet(t, store[1][t]) = KeySet(t, store[2][t])

\* C5: Batch atomicity.  After a loader call whose executemany raised, the
\* table holds exactly the rows it held when the loader was called.
C5_BatchAtomic ==
  lastBatch.outcome = "rolledback"
    => store[PGDB][TableOf(lastBatch.kind)] = lastBatch.before
\* A batch failed after some of its rows had been inserted.
C5_Witness ==
  lastBatch.outcome = "rolledback" /\ lastBatch.pending # <<>>

\* C6: After a failed batch the loader has retried record by record: every
\* record of the batch that the store accepts on its own is in the table.
C6_RetryCommitsRest ==
  lastBatch.outcome = "rolledback"
    => \A i \in 1..Len(lastBatch.valid) :
         Acceptable(lastBatch.kind, lastBatch.valid[i])
           => KeyExists(TableOf(lastBatch.kind),
                        store[PGDB][TableOf(lastBatch.kind)], lastBatch.valid[i])

\* C7: Cancellation.  After an interrupt the database is exactly what the
\* last batch boundary left: committed batches stay, nothing of the batch in
\* flight is kept, and no transaction stays open.
C7_CancelAtBoundary ==
  pc = "cancelled" => (store[PGDB] = atBoundary /\ txn = <<>>)
\* An interrupt that hit a batch with inserted rows, after an earlier commit.
C7_Witness ==
  /\ pc = "cancelled"
  /\ lastBatch.outcome = "interrupted"
  /\ lastBatch.pending # <<>>
  /\ commitLog # <<>>

\* C8 (as stated): the rows of a run are committed in the order the reader
\* yielded their records, whatever their kinds.
C8_ReaderOrder ==
  \A i, j \in 1..Len(commitLog) : i < j => commitLog[i].pos < commitLog[j].pos
\* C8 (amended): the rows of one kind are committed in the order the reader
\* yielded their records, and no transaction is open outside a loader call:
\* a batch is committed or rolled back before the next one begins.
C8_KindOrder ==
  /\ \A i, j \in 1..Len(commitLog) :
       (i < j /\ commitLog[i].kind = commitLog[j].kind)
         => commitLog[i].pos < commitLog[j].pos
  /\ pc \notin LoaderPcs => txn = <<>>
\* Two rows of one kind were committed in one run.
C8_Witness ==
  \E i, j \in 1..Len(commitLog) : i < j /\ commitLog[i].kind = commitLog[j].kind

\* C9: Every stored quantity, category and workout row has
\* start_date <= end_date.
C9_StartBeforeEnd ==
  \A db \in DBs, t \in Tables :
    \A i \in 1..Len(store[db][t]) :
      Val(store[db][t][i].start_date) <= Val(store[db][t][i].end_date)


\* The record's start lies in the window [start, end], each bound applying
\* only when given.
InWindow(el, start, end) ==
  LET t == validate_and_parse_timestamp(el.startDate) IN
  /\ ~IsNone(t)
  /\ (Truthy(start) => Val(t) >= DayOf(Val(start)))
  /\ (Truthy(end) => Val(t) <= DayOf(Val(end)))

\* C10: Date filter.  When the orchestrator has run the Apple Health source
\* on an existing export with a date window, every otherwise valid record of
\* the export is in the store exactly when its timestamp lies in the window.
C10_DateWindow ==
  (/\ orch.pc = "exit"
   /\ orch.results["apple"] # "unset"
   /\ PathOr(FilePath(orch.args, "apple"), orch.env.APPLE_HEALTH_ZIP_PATH)
        \in orch.env.exists
   /\ Truthy(orch.args.start)
   /\ Truthy(orch.args.end))
    => \A i \in 1..Len(export) :
         LET el == export[i]
             kind == KindOf(el)
         IN (kind # "none" /\ ValidOf(kind, DictOf(el))
               /\ Acceptable(kind, RowOf(kind, DictOf(el))))
            => (InWindow(el, orch.args.start, orch.args.end)
                  <=> KeyExists(TableOf(kind), store[PGDB][TableOf(kind)],
                                RowOf(kind, DictOf(el))))


\* The arguments pass the checks of main: a source is requested and the
\* dates, when given, are well formed.
ArgsValid(a) ==
  /\ \E src \in Sources : Requested(a, src)
  /\ (Truthy(a.start) => ~IsNone(strptime(Val(a.start))))
  /\ (Truthy(a.end) => ~IsNone(strptime(Val(a.end))))

\* The path a source resolves: the override it was passed, or its default.
DefaultPath(env, src) ==
  CASE src = "apple" -> env.APPLE_HEALTH_ZIP_PATH
    [] src = "loseit" -> env.LOSEIT_ZIP_PATH
    [] src = "scale" -> env.SCALE_CSV_PATH
    [] OTHER -> env.GLUCOSE_CSV_PATH
Available(src) ==
  LET path == PathOr(orch.passed[src], DefaultPath(orch.env, src)) IN
  path # "" /\ path \in orch.env.exists

\* C11: Source isolation.  When the orchestrator has ended a run whose
\* arguments are valid, every requested source was attempted and has its
\* outcome entry, whatever happened to the other sources.
C11_SourceIsolation ==
  (orch.pc = "exit" /\ ArgsValid(orch.args))
    => \A src \in Sources :
         Requested(orch.args, src)
           => (src \in orch.tried /\ orch.results[src] # "unset")

\* C12: Exit status.  The exit status is zero exactly when a source was
\* requested and every requested source is recorded as succeeded, and it is
\* non-zero whenever a requested source failed outright because its artifact
\* was not there.
C12_ExitStatus ==
  orch.pc = "exit"
    => /\ orch.exit = 0 <=>
            /\ \E src \in Sources : Requested(orch.args, src)
            /\ \A src \in Sources :
                 Requested(orch.args, src) => orch.results[src] = "true"
       /\ (\E src \in Sources : Requested(orch.args, src) /\ ~Available(src))
            => orch.exit # 0

\* C13: Source unavailable.  A source recorded as succeeded had a configured
\* path naming an existing file; a source without one is recorded as failed.
C13_UnavailableFails ==
  \A src \in orch.tried :
     /\ orch.results[src] = "true" => Available(src)
     /\ ~Available(src) => orch.results[src] = "false"

\* C14: Store unavailable.  When no connection to the store can be made, the
\* run ends with a non-zero status, no source is recorded as succeeded and
\* nothing is persisted.
C14_StoreUnavailableFatal ==
  (orch.pc = "exit" /\ ~orch.env.store_up)
    => /\ orch.exit # 0
       /\ \A src \in Sources : orch.results[src] # "true"
       /\ store[PGDB] = EmptyDb

\* C15: File override.  A source that ran was passed the --file override when
\* its toggle is the only source toggle set, and was passed no path (so that
\* it uses its default) in every other case.
C15_FileOverride ==
  \A src \in orch.tried :
     LET toggles == {t \in Sources : orch.args[t]} IN
     /\ toggles = {src} => orch.passed[src] = orch.args.file
     /\ toggles # {src} => orch.passed[src] = NoneV

C15_Witness ==
  /\ orch.pc = "exit"
  /\ \E src \in orch.tried : orch.passed[src] = Some(CustomPath)


\* C16: Missing food_item.  When the food loader has finished, no row of
\* food_log comes from a DataFrame row without food_item, and the total it
\* printed counts no such row.
C16_MissingFoodItem ==
  food.pc = "done"
    => LET withItem == {i \in 1..Len(food.df) : ~IsNone(food.df[i].food_item)} IN
       /\ \A k \in 1..Len(food.table) : food.table[k].pos \in withItem
       /\ ~IsNone(food.printed) => Val(food.printed) <= Cardinality(withItem)

\* C18: Unique constraint.  When the food loader has run its INSERT, its
\* conflict target is a unique constraint of the table, and a load that
\* failed for want of the constraint is reported as failed, not as complete.
C18_ConstraintFailFast ==
  (food.pc = "done" /\ food.recs # <<>>)
    => /\ FoodConflictTarget \in FoodConstraints(food.keyed)
       /\ food.error = "no_constraint" => food.reported = "failed"

\* What a loader of convert_apple_health.py reports for a batch: the inserted
\* count it returns.  It returns no count of duplicates, rejections or
\* failures.
Report(b) == [inserted |-> b.ret, duplicate |-> 0, rejected |-> 0, failed |-> 0]

\* C19: No silent data loss.  When a loader has returned, the records of the
\* batch it was given are all accounted for by its report: attempted =
\* inserted + duplicate-skipped + rejected + failed.
C19_NoSilentLoss ==
  lastBatch.outcome \in {"committed", "rolledback", "novalid"}
    => LET r == Report(lastBatch) IN
       lastBatch.n = r.inserted + r.duplicate + r.rejected + r.failed

\* C20: Inserted count.  When the food loader has printed its total, the
\* total equals the number of rows this run added to food_log.
C20_InsertedCount ==
  (food.pc = "done" /\ ~IsNone(food.printed))
    => Val(food.printed) = Len(food.table) - Len(food.before)


\* The rows of the CSV that carry a timestamp and a glucose value.
GlucoseGood(csv) ==
  {i \in 1..Len(csv) : /\ ~IsNone(CombineDateTime(csv[i].date, csv[i].time))
                        /\ ~IsNone(csv[i].glucose)}

\* C17: Unparsable glucose timestamp.  No stored reading comes from a CSV row
\* whose date and time do not combine into a timestamp, and when the load
\* has committed, every row with a timestamp and a value has been stored by
\* it: the rejected rows did not stop the others.
C17_BadTimestampRejected ==
  /\ \A k \in 1..Len(gluc.table) :
       /\ ~IsNone(gluc.table[k].reading_time)
       /\ gluc.table[k].pos \in GlucoseGood(gluc.csv)
  /\ (gluc.pc = "done" /\ gluc.present /\ gluc.error \notin {"noconnect", "nofile"}
        /\ \A i \in GlucoseGood(gluc.csv) : Val(gluc.csv[i].glucose) < GlucoseLimit)
       => /\ gluc.error = "none"
          /\ \A i \in GlucoseGood(gluc.csv) :
               \E k \in (Len(gluc.before) + 1)..Len(gluc.table) :
                   gluc.table[k].pos = i

C17_Witness ==
  /\ gluc.pc = "done"
  /\ gluc.error = "none"
  /\ \E i, j \in 1..Len(gluc.csv) :
       /\ i < j
       /\ ~IsNone(gluc.csv[i].date) /\ ~IsNone(gluc.csv[i].time)
       /\ IsNone(CombineDateTime(gluc.csv[i].date, gluc.csv[i].time))
       /\ \E k \in 1..Len(gluc.table) : gluc.table[k].pos = j


\* C21: when the archive lacks its required member (food-logs.csv), the
\* source fails: nothing is persisted and no summary reports it as an
\* ingestion that completed with some number of rows (zero included).
C21_MissingMemberFatal ==
  LzMember \notin lz.members /\ lz.pc \notin {"off", "load"}
    => lz.table = <<>> /\ IsNone(lz.summary)


\* C22: no batch handed to a loader holds more than BATCH_SIZE records, and
\* at the start of every loop iteration each of the three lists holds fewer
\* than BATCH_SIZE records.
C22_BatchBounded ==
  /\ lastBatch.n <= BATCH_SIZE
  /\ pc = "loop" => \A k \in Kinds : Len(buf[k]) < BATCH_SIZE

\* A full batch of two records was handed over and the loop goes on.
C22_Witness == pc = "loop" /\ BATCH_SIZE = 2 /\ lastBatch.n = 2


\* The positions of the first n elements of the export that the reader
\* buffers for a kind.
PositionsOf(kind, n) ==
  SelectSeq([i \in 1..n |-> i], LAMBDA i : KindOf(export[i]) = kind)

\* The XML loop hands every record it buffers to the loader in exactly one
\* batch: per kind, the batches handed over so far followed by what is
\* still buffered are the records read so far, and at the end of the run
\* the batches together are all records of the kind, each once.
HandedExactlyOnce ==
  /\ pc = "loop" =>
       \A k \in Kinds : handed[k] \o PosOf(buf[k]) = PositionsOf(k, idx - 1)
  /\ pc = "return" =>
       \A k \in Kinds : handed[k] = PositionsOf(k, Len(export))

\* C23: every record accepted by the reader is handed to the loader in
\* exactly one batch, none omitted and none sent twice: in the XML loop as
\* above, and in insert_food_log the batches sent to executemany are
\* together records_to_insert once its loop is left.
C23_ExactlyOneBatch ==
  /\ HandedExactlyOnce
  /\ food.pc \in {"close", "done"} => food.sent = PosOf(food.recs)

\* A run that ended after handing two batches of one kind.
HandedTwoBatches ==
  pc = "return" /\ BATCH_SIZE = 1 /\ \E k \in Kinds : Len(handed[k]) = 2


\* What the validation gate asks of an element of a kind: an identifying
\* field that is not empty, a start and an end that parse, and for a
\* quantity a value that parses.
GatePass(kind, el) ==
  /\ Truthy(IF kind = "workout" THEN el.workoutActivityType ELSE el.type)
  /\ ~IsNone(validate_and_parse_timestamp(el.startDate))
  /\ ~IsNone(validate_and_parse_timestamp(el.endDate))
  /\ kind = "quantity" => ~IsNone(parse_numeric_value(el.value))

\* The positions of the records of the batch the loader was last given.
LastBatchPos ==
  LET h == handed[lastBatch.kind] IN SubSeq(h, Len(h) - lastBatch.n + 1, Len(h))

\* C24: a record is persisted only if it passes the validation gate, and
\* the records of a committed batch that pass it are in the store whatever
\* records of the same batch were rejected by it.
C24_ValidationGate ==
  /\ \A i \in 1..Len(commitLog) :
       GatePass(commitLog[i].kind, export[commitLog[i].pos])
  /\ (pc \in RunningPcs /\ lastBatch.outcome = "committed") =>
       \A j \in 1..Len(LastBatchPos) :
         LET el == export[LastBatchPos[j]] IN
         GatePass(lastBatch.kind, el) =>
           KeyExists(TableOf(lastBatch.kind), store[PGDB][TableOf(lastBatch.kind)],
                     RowOf(lastBatch.kind, DictOf(el)))

\* A committed batch of two records of which the gate rejected one.
C24_Witness ==
  /\ pc \in RunningPcs /\ lastBatch.outcome = "committed"
  /\ lastBatch.n = 2 /\ Len(lastBatch.valid) = 1
  /\ Len(store[PGDB][TableOf(lastBatch.kind)]) = 1

\* The kind an element belongs to by its tag and its type prefix.
Routed(kind, el) ==
  CASE kind = "quantity" ->
         el.tag = "Record" /\ ~IsNone(el.type) /\ StartsWithQuantity(Val(el.type))
    [] kind = "category" ->
         el.tag = "Record" /\ ~IsNone(el.type) /\ StartsWithCategory(Val(el.type))
    [] OTHER -> el.tag = "Workout"

\* C27: each element is routed to at most one kind, by its tag and type
\* prefix; every other element changes no list.  Per kind, what was handed
\* over and what is buffered are exactly the elements read so far that
\* belong to the kind, each with its own attributes.
C27_KindRouting ==
  /\ \A i \in 1..Len(export) :
       Cardinality({k \in Kinds : Routed(k, export[i])}) <= 1
  /\ pc \in {"loop"} \cup FlushPcs =>
       \A k \in Kinds :
         /\ handed[k] \o PosOf(buf[k]) =
              SelectSeq([i \in 1..(idx - 1) |-> i], LAMBDA i : Routed(k, export[i]))
         /\ \A j \in 1..Len(buf[k]) :
              /\ buf[k][j].d.startDate = export[buf[k][j].pos].startDate
              /\ buf[k][j].d.endDate = export[buf[k][j].pos].endDate

\* An element that belongs to no kind was read and the lists are empty.
C27_Witness ==
  /\ pc = "flushQ" /\ idx = 2
  /\ export[1] \in {rOtherType, rNoType, other}
  /\ buf = EmptyBuf


\* C28: every persisted workout is stored with the duration its element
\* supplies whenever that duration parses as a number, 0 included, and
\* with end minus start only when no parsable duration was supplied.
C28_SuppliedDuration ==
  \A i \in 1..Len(commitLog) :
    commitLog[i].kind = "workout" =>
      LET el == export[commitLog[i].pos]
          given == parse_numeric_value(el.duration)
          start == validate_and_parse_timestamp(el.startDate)
          end == validate_and_parse_timestamp(el.endDate)
          rows == store[PGDB]["workouts"] IN
      \E j \in 1..Len(rows) :
        /\ rows[j].activity_type = el.workoutActivityType
        /\ rows[j].start_date = start
        /\ rows[j].end_date = end
        /\ rows[j].duration_seconds =
             IF IsNone(given) THEN Some(total_seconds(Val(start), Val(end)))
             ELSE given


\* C25: a persisted record whose numeric source value was missing or
\* unparsable holds no number for it, never zero: a food_log row whose
\* DataFrame row has no calories is not stored with calories_consumed 0.
C25_MissingNotZero ==
  \A j \in 1..Len(food.table) :
    IsNone(food.df[food.table[j].pos].calories_consumed)
      => food.table[j].calories_consumed # 0


\* C29: when the store rejects batch k of insert_food_log, no record of
\* batch k is in the store, and the batches after k are still attempted:
\* each of their records that the store accepts is in it afterwards.
C29_FailedBatchIsolated ==
  (food.pc \in {"close", "done"} /\ food.error # "none") =>
    LET last == Min(food.i + food.batch_size, Len(food.recs)) IN
    /\ \A j \in (food.i + 1)..last, t \in 1..Len(food.table) :
         food.table[t] # food.recs[j]
    /\ \A j \in (last + 1)..Len(food.recs) :
         FoodInsertOutcome(food.keyed, <<>>, food.recs[j]) = "insert"
           => \E t \in 1..Len(food.table) :
                FoodKey(food.table[t]) = FoodKey(food.recs[j])


\* An option value that is given and is a YYYY-MM-DD date.
ValidDate(o) == ~IsNone(o) /\ ~IsNone(strptime(Val(o)))

\* C30: argument validation precedes all ingestion: when no source is
\* requested, or --start or --end is given and is not a valid YYYY-MM-DD
\* date, the run exits with status 1, no source was started and the store
\* is unchanged.
C30_ValidationFirst ==
  (/\ orch.pc = "exit"
   /\ \/ ~(\E src \in Sources : Requested(orch.args, src))
      \/ ~IsNone(orch.args.start) /\ ~ValidDate(orch.args.start)
      \/ ~IsNone(orch.args.end) /\ ~ValidDate(orch.args.end))
    => /\ orch.exit = 1
       /\ orch.tried = {}
       /\ store = [db \in DBs |-> EmptyDb]


\* C26: a stored scale weight given in pounds is the CSV value times
\* 0.453592, once, and a weight the CSV gives in kilograms is stored as
\* given (both in millionths of a kilogram).
C26_ConvertOnce ==
  \A j \in 1..Len(scale.table) :
    LET given == scale.csv[scale.table[j].pos].weight IN
    ~IsNone(given) =>
      scale.table[j].weight_kg =
        Some(Val(given) * (IF scale.unit = "lb" THEN PoundsToKg ELSE PerUnit))

=============================================================================
